---- MODULE Spec2Model ----
(***************************************************************************)
(* Model of dashboard.py: the start-up script (CSV load, derived metrics,  *)
(* layout with the summary cards and the agent selector) followed by the   *)
(* serving phase, in which every change of the selector's value runs the   *)
(* four registered callbacks.                                              *)
(*                                                                         *)
(* Numbers.  risk_score is a float in the code; the model keeps it in      *)
(* tenths (the exact value of 10 * (1 - min(x / 10, 1))), which orders and *)
(* compares exactly as the floats do for integer x.  A float that may be   *)
(* NaN is a record [isnan, v].                                             *)
(***************************************************************************)
EXTENDS Integers, Sequences, FiniteSets, TLC

VARIABLES
    csv,        \* the input file: [exists, columns, rows]
    pc,         \* position of the module-level script
    error,      \* the exception that ended start-up ("" when none)
    df,         \* the DataFrame: [columns, rows]
    cards,      \* the summary cards of the layout
    options,    \* the dropdown's options, in order
    selection,  \* the dropdown's value
    vc,         \* "Down", "Idle" or "Recomputing"
    pending,    \* callbacks still to run for the current change event
    out         \* per output: the last call's argument and outcome

vars == <<csv, pc, error, df, cards, options, selection, vc, pending, out>>

(***************************** bounds **************************************)
MaxRows == 2
MaxCount == 2
MaxAgents == 3
MaxPolicy == 12
MaxYearSpan == 1
BaseYear == 2022
MaxRulePolicy == 4
MaxProposal == 11

(************************ program constants ********************************)
RiskScale == 10
TopN == 20
HistBins == 20
MentorThreshold == 3
ProposalThreshold == 10
SalesThreshold == 3

AllColumns ==
    {"agent_code", "agent_join_month", "first_policy_sold_month",
     "new_policy_count", "unique_proposal", "net_income"}

\* Python's None, the dropdown's value once it is cleared.
None == "<None>"

Callbacks ==
    {"policy-distribution", "income-vs-policy", "risk-score-chart", "action-items"}

MentorMsg == "Assign a mentor to boost performance"
ProposalMsg == "Encourage proposal generation activities"
SalesMsg == "Provide sales acceleration support"
FallbackMsg == "Agent is performing well. No intervention needed."

(************************** small helpers **********************************)
Min2(a, b) == IF a <= b THEN a ELSE b

Range(s) == {s[i] : i \in 1..Len(s)}

SeqsUpTo(S, n) == UNION {[1..k -> S] : k \in 0..n}

Restrict(row, cols) == [c \in cols |-> row[c]]

NaN == [isnan |-> TRUE, v |-> 0]
Num(x) == [isnan |-> FALSE, v |-> x]

(************************** raw date cells *********************************)
NullDate == [kind |-> "null", year |-> 0, month |-> 0]
BadDate == [kind |-> "text", year |-> 0, month |-> 0]
Date(y, m) == [kind |-> "date", year |-> y, month |-> m]

(************************** Metric Deriver *********************************)
\* pd.to_datetime(col, errors='coerce'): NaT for a missing or unparseable cell.
NaT == [nat |-> TRUE, year |-> 0, month |-> 0]
to_datetime(cell) ==
    IF cell.kind = "date"
    THEN [nat |-> FALSE, year |-> cell.year, month |-> cell.month]
    ELSE NaT

\* Series.dt.month: the calendar month, NaN for NaT.
dt_month(ts) == IF ts.nat THEN NaN ELSE Num(ts.month)

\* float subtraction, NaN-propagating.
fsub(a, b) == IF a.isnan \/ b.isnan THEN NaN ELSE Num(a.v - b.v)

\* .fillna(0).astype(int)
fillna_int(x, d) == IF x.isnan THEN d ELSE x.v

\* A plausible "fix": true elapsed months, using the year.
months_elapsed(row) ==
    LET s == to_datetime(row.first_policy_sold_month)
        j == to_datetime(row.agent_join_month)
    IN  IF s.nat \/ j.nat THEN 0
        ELSE 12 * (s.year - j.year) + (s.month - j.month)

months_to_first_sale(row) ==
    fillna_int(fsub(dt_month(to_datetime(row.first_policy_sold_month)),
                    dt_month(to_datetime(row.agent_join_month))), 0)

\* The clamp forgotten: 1 - x / 10.
risk_score_unclamped(x) == RiskScale - x

\* lambda x: 1 - min(x / 10, 1), in tenths.
risk_score(x) == RiskScale - Min2(x, RiskScale)

(************************ Aggregate Summarizer *****************************)
RECURSIVE SumCol(_, _)
SumCol(rows, col) ==
    IF rows = <<>> THEN 0 ELSE rows[1][col] + SumCol(Tail(rows), col)

\* f"{mean:.2f}" in hundredths (round half to even); only called on n > 0.
mean_2f(rows, col) ==
    LET n == Len(rows)
        s == 100 * SumCol(rows, col)
        q == s \div n
        r == s % n
    IN  IF 2 * r > n THEN q + 1
        ELSE IF 2 * r < n THEN q
        ELSE IF q % 2 = 0 THEN q ELSE q + 1

ColMax(rows, col) ==
    CHOOSE m \in {rows[i][col] : i \in 1..Len(rows)} :
        \A i \in 1..Len(rows) : rows[i][col] <= m

\* The last label of the maximum instead of the first.
idxmax_last(rows, col) ==
    CHOOSE i \in 1..Len(rows) :
        /\ rows[i][col] = ColMax(rows, col)
        /\ \A j \in (i + 1)..Len(rows) : rows[j][col] # ColMax(rows, col)

\* Series.idxmax(): the label of the first occurrence of the maximum.
idxmax(rows, col) ==
    CHOOSE i \in 1..Len(rows) :
        /\ rows[i][col] = ColMax(rows, col)
        /\ \A j \in 1..(i - 1) : rows[j][col] # ColMax(rows, col)

\* Series.unique(): distinct values in order of first appearance.
RECURSIVE unique(_)
unique(s) ==
    IF s = <<>> THEN <<>>
    ELSE LET u == unique(SubSeq(s, 1, Len(s) - 1))
             x == s[Len(s)]
         IN  IF x \in Range(u) THEN u ELSE Append(u, x)

Column(rows, col) == [i \in 1..Len(rows) |-> rows[i][col]]

(****************************** start-up ***********************************)
NoCall == [arg |-> None, result |-> [kind |-> "none"]]

NoCards == [total_agents |-> 0, avg_new_policies |-> 0, top_performer |-> None]

Fail(exc) ==
    /\ pc' = "failed"
    /\ error' = exc

\* line 11: df = pd.read_csv(...)
ReadCsv ==
    /\ pc = "read_csv"
    /\ IF csv.exists
       THEN /\ df' = [columns |-> csv.columns, rows |-> csv.rows]
            /\ pc' = "derive_months"
            /\ UNCHANGED error
       ELSE /\ Fail("FileNotFoundError")
            /\ UNCHANGED df
    /\ UNCHANGED <<csv, cards, options, selection, vc, pending, out>>

\* lines 14-15: df['months_to_first_sale'] = ...
DeriveMonths ==
    /\ pc = "derive_months"
    /\ IF {"first_policy_sold_month", "agent_join_month"} \subseteq df.columns
       THEN /\ df' = [columns |-> df.columns \cup {"months_to_first_sale"},
                      rows |-> [i \in 1..Len(df.rows) |->
                                 df.rows[i] @@
                                 ("months_to_first_sale" :>
                                      months_to_first_sale(df.rows[i]))]]
            /\ pc' = "derive_risk"
            /\ UNCHANGED error
       ELSE /\ Fail("KeyError")
            /\ UNCHANGED df
    /\ UNCHANGED <<csv, cards, options, selection, vc, pending, out>>

\* line 16: df['risk_score'] = ...
DeriveRisk ==
    /\ pc = "derive_risk"
    /\ IF "new_policy_count" \in df.columns
       THEN /\ df' = [columns |-> df.columns \cup {"risk_score"},
                      rows |-> [i \in 1..Len(df.rows) |->
                                 df.rows[i] @@
                                 ("risk_score" :>
                                      risk_score(df.rows[i].new_policy_count))]]
            /\ pc' = "layout"
            /\ UNCHANGED error
       ELSE /\ Fail("KeyError")
            /\ UNCHANGED df
    /\ UNCHANGED <<csv, cards, options, selection, vc, pending, out>>

\* lines 34-85: app.layout = ...; the cards, then the dropdown.
BuildLayout ==
    /\ pc = "layout"
    /\ IF df.rows = <<>>
       THEN /\ Fail("ValueError")       \* idxmax of an empty Series (line 51)
            /\ UNCHANGED <<cards, options, selection, vc>>
       ELSE IF "agent_code" \notin df.columns
       THEN /\ Fail("KeyError")         \* df.loc[..., 'agent_code'] (line 51)
            /\ UNCHANGED <<cards, options, selection, vc>>
       ELSE /\ cards' =
                 [total_agents |-> Len(df.rows),
                  avg_new_policies |-> mean_2f(df.rows, "new_policy_count"),
                  top_performer |->
                      df.rows[idxmax(df.rows, "new_policy_count")].agent_code]
            /\ options' = unique(Column(df.rows, "agent_code"))
            /\ selection' = df.rows[1].agent_code
            /\ vc' = "Idle"
            /\ pc' = "serving"
            /\ UNCHANGED error
    /\ UNCHANGED <<csv, df, pending, out>>

(**************************** Chart Renderers ******************************)
Matches(frame, selected_agent) ==
    SelectSeq(frame.rows, LAMBDA r : r.agent_code = selected_agent)

Raised(exc) == [kind |-> exc]

\* lines 91-95
policy_distribution(frame, selected_agent) ==
    LET m == Matches(frame, selected_agent)
    IN  IF m = <<>>
        THEN Raised("IndexError")                       \* .values[0], line 93
        ELSE [kind |-> "figure",
              x |-> Column(frame.rows, "new_policy_count"),
              nbins |-> HistBins,
              vline |-> m[1].new_policy_count]

\* lines 100-107
income_vs_policy(frame, selected_agent) ==
    IF "net_income" \notin frame.columns
    THEN Raised("ValueError")                           \* px.scatter, line 101
    ELSE LET m == Matches(frame, selected_agent)
         IN  [kind |-> "figure",
              x |-> Column(frame.rows, "new_policy_count"),
              y |-> Column(frame.rows, "net_income"),
              hover |-> Column(frame.rows, "agent_code"),
              selected |-> [i \in 1..Len(m) |->
                              <<m[i].new_policy_count, m[i].net_income>>]]

Perms(n) ==
    {p \in [1..n -> 1..n] : \A i, j \in 1..n : i # j => p[i] # p[j]}

\* df.sort_values('risk_score', ascending=False): the default kind is
\* 'quicksort', which is not stable, so equal keys may come out in any order.
sort_values_desc(rows) ==
    {[i \in 1..Len(rows) |-> rows[p[i]]] :
        p \in {q \in Perms(Len(rows)) :
                 \A i \in 1..(Len(rows) - 1) :
                     rows[q[i]].risk_score >= rows[q[i + 1]].risk_score}}

\* DataFrame.head(n)
head(rows, n) == SubSeq(rows, 1, Min2(n, Len(rows)))

\* lines 112-116, for one outcome of the sort
risk_chart(sorted) ==
    [kind |-> "figure",
     bars |-> [i \in 1..Len(head(sorted, TopN)) |->
                 <<sorted[i].agent_code, sorted[i].risk_score>>]]

(*********************** Intervention Rule Engine **************************)
\* The three tests chained as if / elif / elif.
rules_elif(agent_data) ==
    IF agent_data.new_policy_count < MentorThreshold THEN <<MentorMsg>>
    ELSE IF agent_data.unique_proposal < ProposalThreshold THEN <<ProposalMsg>>
    ELSE IF agent_data.months_to_first_sale > SalesThreshold THEN <<SalesMsg>>
    ELSE <<FallbackMsg>>

\* lines 123-135
rules(agent_data) ==
    LET actions ==
            (IF agent_data.new_policy_count < MentorThreshold
             THEN <<MentorMsg>> ELSE <<>>)
            \o (IF agent_data.unique_proposal < ProposalThreshold
                THEN <<ProposalMsg>> ELSE <<>>)
            \o (IF agent_data.months_to_first_sale > SalesThreshold
                THEN <<SalesMsg>> ELSE <<>>)
    IN  IF actions = <<>> THEN <<FallbackMsg>> ELSE actions

\* lines 121-135
actions_for(frame, selected_agent) ==
    LET m == Matches(frame, selected_agent)
    IN  IF m = <<>>
        THEN Raised("IndexError")                       \* .iloc[0], line 122
        ELSE IF "unique_proposal" \notin frame.columns
        THEN Raised("KeyError")                         \* line 127
        ELSE [kind |-> "list", items |-> rules(m[1])]

(***************************** View Controller *****************************)
\* A change of the dropdown's value: one of its options, or None when the
\* (clearable) dropdown is cleared.  Every callback that has the value as its
\* Input is queued.  Change events are taken one at a time.
SelectionChange ==
    /\ pc = "serving"
    /\ vc = "Idle"
    /\ \E v \in Range(options) \cup {None} : selection' = v
    /\ vc' = "Recomputing"
    /\ pending' = Callbacks
    /\ UNCHANGED <<csv, pc, error, df, cards, options, out>>

Complete(id, result) ==
    /\ vc = "Recomputing"
    /\ id \in pending
    /\ out' = [out EXCEPT ![id] = [arg |-> selection, result |-> result]]
    /\ pending' = pending \ {id}
    /\ vc' = IF pending \ {id} = {} THEN "Idle" ELSE "Recomputing"
    /\ UNCHANGED <<csv, pc, error, df, cards, options, selection>>

UpdatePolicyDistribution ==
    Complete("policy-distribution", policy_distribution(df, selection))

UpdateIncomeVsPolicy ==
    Complete("income-vs-policy", income_vs_policy(df, selection))

UpdateRiskChart ==
    /\ vc = "Recomputing"
    /\ \E sorted \in sort_values_desc(df.rows) :
           Complete("risk-score-chart", risk_chart(sorted))

UpdateActions ==
    Complete("action-items", actions_for(df, selection))

(******************************* inputs ************************************)
MissingFile == [exists |-> FALSE, columns |-> {}, rows |-> <<>>]

Csvs(columnSets, rowSeqs) ==
    {[exists |-> TRUE, columns |-> c,
      rows |-> [i \in 1..Len(s) |-> Restrict(s[i], c)]] :
        c \in columnSets, s \in rowSeqs}

RowSet(codes, joins, sales, counts, proposals, incomes) ==
    [agent_code : codes, agent_join_month : joins,
     first_policy_sold_month : sales, new_policy_count : counts,
     unique_proposal : proposals, net_income : incomes]

ColumnSets == {AllColumns} \cup {AllColumns \ {c} : c \in AllColumns}

Years == BaseYear..(BaseYear + MaxYearSpan)

DateCells == {NullDate, BadDate} \cup {Date(y, m) : y \in Years, m \in 1..12}

YearCells == {NullDate} \cup {Date(BaseYear, m) : m \in 1..12}

InitWith(files) ==
    /\ csv \in files
    /\ pc = "read_csv"
    /\ error = ""
    /\ df = [columns |-> {}, rows |-> <<>>]
    /\ cards = NoCards
    /\ options = <<>>
    /\ selection = None
    /\ vc = "Down"
    /\ pending = {}
    /\ out = [id \in Callbacks |-> NoCall]

(*************************** specifications ********************************)
\* The dashboard: any input file, start-up, then change events.
Init ==
    InitWith({MissingFile} \cup
             Csvs(ColumnSets,
                  SeqsUpTo(RowSet({"A1", "A2"}, {Date(BaseYear, 1)},
                                  {Date(BaseYear, 6)}, 0..MaxCount,
                                  {ProposalThreshold}, {1000}),
                           MaxRows)))

Next ==
    \/ ReadCsv
    \/ DeriveMonths
    \/ DeriveRisk
    \/ BuildLayout
    \/ SelectionChange
    \/ UpdatePolicyDistribution
    \/ UpdateIncomeVsPolicy
    \/ UpdateRiskChart
    \/ UpdateActions

Spec == Init /\ [][Next]_vars

\* The Metric Deriver on one record drawn from a wide range of cells.
InitDerive ==
    InitWith(Csvs({AllColumns},
                  {<<r>> : r \in RowSet({"A1"}, DateCells, DateCells,
                                        0..MaxPolicy, {ProposalThreshold},
                                        {1000})}))

NextDerive ==
    \/ ReadCsv
    \/ DeriveMonths
    \/ DeriveRisk

SpecDerive == InitDerive /\ [][NextDerive]_vars

\* The Aggregate Summarizer on every short Dataset.
InitSummary ==
    InitWith(Csvs({AllColumns},
                  SeqsUpTo(RowSet({"A1", "A2", "A3"}, {Date(BaseYear, 1)},
                                  {Date(BaseYear, 6)}, 0..MaxCount,
                                  {ProposalThreshold}, {1000}),
                           MaxAgents)))

NextSummary ==
    \/ ReadCsv
    \/ DeriveMonths
    \/ DeriveRisk
    \/ BuildLayout

SpecSummary == InitSummary /\ [][NextSummary]_vars

\* The rule engine on one record around each threshold.
InitRules ==
    InitWith(Csvs({AllColumns},
                  {<<r>> : r \in RowSet({"A1"}, YearCells, YearCells,
                                        0..MaxRulePolicy, 0..MaxProposal,
                                        {1000})}))

NextRules ==
    \/ ReadCsv
    \/ DeriveMonths
    \/ DeriveRisk
    \/ BuildLayout
    \/ SelectionChange
    \/ UpdateActions

SpecRules == InitRules /\ [][NextRules]_vars

(******************************* claims ************************************)
AgentCodes == {df.rows[i].agent_code : i \in 1..Len(df.rows)}

Called(id) == out[id].result.kind # "none"

WellFormedFile == csv.exists /\ AllColumns \subseteq csv.columns

\* C1: with a complete input file, a call of any of the four callbacks with a
\* selection that is the agent_code of no record (a cleared selection
\* included) ends in a SelectionNotFound error: no chart, no list, no other
\* error.
C1_SelectionNotFound ==
    (pc = "serving" /\ WellFormedFile) =>
        \A id \in Callbacks :
            (Called(id) /\ out[id].arg \notin AgentCodes)
                => out[id].result.kind = "SelectionNotFound"

\* C2: for a selection that resolves to a record (of a Dataset that has the
\* three columns the rules read), update_actions returns
\* exactly the messages of the rules that hold, in the order mentor
\* (new_policy_count < 3), proposal (unique_proposal < 10), sales
\* (months_to_first_sale > 3); the fallback is present iff no rule fires and
\* is then the only element; the list is never empty.
C2_RulesExact ==
    (pc = "serving" /\ Called("action-items")
        /\ "unique_proposal" \in df.columns
        /\ out["action-items"].arg \in AgentCodes) =>
        LET call == out["action-items"]
            r == Matches(df, call.arg)[1]
            mentor == r.new_policy_count < 3
            proposal == r.unique_proposal < 10
            sales == r.months_to_first_sale > 3
            none == ~mentor /\ ~proposal /\ ~sales
        IN  /\ call.result.kind = "list"
            /\ call.result.items =
                   (IF mentor THEN <<MentorMsg>> ELSE <<>>)
                   \o (IF proposal THEN <<ProposalMsg>> ELSE <<>>)
                   \o (IF sales THEN <<SalesMsg>> ELSE <<>>)
                   \o (IF none THEN <<FallbackMsg>> ELSE <<>>)
            /\ call.result.items # <<>>
            /\ (FallbackMsg \in Range(call.result.items)) <=> none
            /\ none => call.result.items = <<FallbackMsg>>

\* C2 witness: the record (2, 5, 5) has produced the three messages in order.
C2_Witness ==
    /\ pc = "serving"
    /\ Called("action-items")
    /\ out["action-items"].arg \in AgentCodes
    /\ LET r == Matches(df, out["action-items"].arg)[1]
       IN  /\ r.new_policy_count = 2
           /\ r.unique_proposal = 5
           /\ r.months_to_first_sale = 5
    /\ out["action-items"].result =
           [kind |-> "list", items |-> <<MentorMsg, ProposalMsg, SalesMsg>>]

\* The Dataset sorted by risk_score descending, equal scores in Dataset order.
StableOrder(rows) ==
    LET p == CHOOSE q \in Perms(Len(rows)) :
                 \A i \in 1..(Len(rows) - 1) :
                     \/ rows[q[i]].risk_score > rows[q[i + 1]].risk_score
                     \/ /\ rows[q[i]].risk_score = rows[q[i + 1]].risk_score
                        /\ q[i] < q[i + 1]
    IN  [i \in 1..Len(rows) |-> rows[p[i]]]

\* C3: the risk chart (here of a complete input file, drawn for a selection
\* that is in the Dataset) holds the first min(n, 20) records of the Dataset
\* sorted by risk_score descending with equal scores kept in Dataset order.
C3_StableTop20 ==
    (/\ pc = "serving"
     /\ WellFormedFile
     /\ Called("risk-score-chart")
     /\ out["risk-score-chart"].arg \in AgentCodes) =>
        LET bars == out["risk-score-chart"].result.bars
            want == StableOrder(df.rows)
        IN  /\ Len(bars) = Min2(Len(df.rows), 20)
            /\ \A i \in 1..Len(bars) :
                   bars[i] = <<want[i].agent_code, want[i].risk_score>>

\* C4: a missing file, a missing required column or an empty Dataset keeps
\* the dashboard from ever serving.
C4_FatalStartup ==
    (\/ ~csv.exists
     \/ ~(AllColumns \subseteq csv.columns)
     \/ csv.rows = <<>>) => pc # "serving"

\* C5: while the dashboard serves (a complete input file), the Selection is
\* the agent_code of a record: the first record's at first, and no dropdown
\* event takes it outside the Dataset's agent codes.
C5_SelectionIsMember ==
    (pc = "serving" /\ WellFormedFile) => selection \in AgentCodes

\* C10: for a complete input file, whenever the controller is back in Idle
\* after a change event, every output holds a chart or list computed for
\* that event's selection, and the Dataset is as it was derived.
C10_AllOutputsRecomputed ==
    (/\ pc = "serving"
     /\ vc = "Idle"
     /\ WellFormedFile
     /\ \E id \in Callbacks : Called(id)) =>
        \A id \in Callbacks :
            /\ out[id].arg = selection
            /\ out[id].result.kind \in {"figure", "list"}

\* C7: risk_score (in tenths) lies in 0..10, is 0 iff new_policy_count >= 10
\* and 10 (that is 1.0) iff new_policy_count = 0, and deriving it raises no
\* error.
C7_RiskScoreRange ==
    /\ pc # "failed"
    /\ "risk_score" \in df.columns =>
           \A i \in 1..Len(df.rows) :
               LET x == csv.rows[i].new_policy_count
                   r == df.rows[i].risk_score
               IN  /\ 0 <= r /\ r <= 10
                   /\ (r = 0) <=> (x >= 10)
                   /\ (r = 10) <=> (x = 0)
                   /\ x < 10 => r = 10 - x

\* C7 witness: a record with more than 10 new policies has risk 0.
C7_Witness ==
    /\ "risk_score" \in df.columns
    /\ \E i \in 1..Len(df.rows) :
           /\ csv.rows[i].new_policy_count > 10
           /\ df.rows[i].risk_score = 0

\* C8: months_to_first_sale is 0 when either date is missing or unparseable,
\* and otherwise the sale's calendar month minus the join's calendar month,
\* whatever the years: an integer in -11..11.
C8_MonthDifference ==
    "months_to_first_sale" \in df.columns =>
        \A i \in 1..Len(df.rows) :
            LET j == csv.rows[i].agent_join_month
                s == csv.rows[i].first_policy_sold_month
                m == df.rows[i].months_to_first_sale
            IN  IF j.kind = "date" /\ s.kind = "date"
                THEN m = s.month - j.month /\ m \in -11..11
                ELSE m = 0

\* C8 witness: joined in month 11, first sale in month 2 of a later year: -9.
C8_Witness ==
    /\ "months_to_first_sale" \in df.columns
    /\ \E i \in 1..Len(df.rows) :
           /\ csv.rows[i].agent_join_month.kind = "date"
           /\ csv.rows[i].first_policy_sold_month.kind = "date"
           /\ csv.rows[i].agent_join_month.month = 11
           /\ csv.rows[i].first_policy_sold_month.month = 2
           /\ csv.rows[i].first_policy_sold_month.year
                  > csv.rows[i].agent_join_month.year
           /\ df.rows[i].months_to_first_sale = -9

\* C9: the Top Performer card shows the agent_code of the first record, in
\* Dataset order, whose new_policy_count is the Dataset maximum.
C9_TopPerformer ==
    pc = "serving" =>
        \E i \in 1..Len(df.rows) :
            /\ cards.top_performer = df.rows[i].agent_code
            /\ \A j \in 1..Len(df.rows) :
                   df.rows[j].new_policy_count <= df.rows[i].new_policy_count
            /\ \A j \in 1..(i - 1) :
                   df.rows[j].new_policy_count < df.rows[i].new_policy_count

\* C9 witness: two records with different codes share the maximum and the
\* card shows the earlier one.
C9_Witness ==
    /\ pc = "serving"
    /\ \E i, k \in 1..Len(df.rows) :
           /\ i < k
           /\ df.rows[i].agent_code # df.rows[k].agent_code
           /\ df.rows[i].new_policy_count = df.rows[k].new_policy_count
           /\ \A j \in 1..Len(df.rows) :
                  df.rows[j].new_policy_count <= df.rows[i].new_policy_count
           /\ \A j \in 1..(i - 1) :
                  df.rows[j].new_policy_count < df.rows[i].new_policy_count
           /\ cards.top_performer = df.rows[i].agent_code

====
